---- MODULE Spec2Model ----
(***************************************************************************)
(* Model of the browser-automation scripts of the repository:              *)
(*   screenshot-first-section-crawler.js  (the crawler)                    *)
(*   screenshot-enhanced.js, screenshot-practical-deep-dive.js and the     *)
(*   unnamed deep-dive script (src/unnamed/part_000).                      *)
(* Every script is one async function: a linear sequence of awaited calls  *)
(* inside try / catch / finally.  One action models the code between two   *)
(* awaits; an awaited call of the browser or a synchronous file write may  *)
(* throw, which is a nondeterministic choice of the environment.           *)
(* Strings that the code inspects character by character are sequences of  *)
(* one-character strings.                                                  *)
(***************************************************************************)
EXTENDS Integers, Sequences, FiniteSets, TLC

(***************************************************************************)
(* Bounds of the model                                                     *)
(***************************************************************************)
\* the most anchors the #main-wrapper of a modelled homepage holds
MaxAnchors == 3

\* the most elements carrying an id on a modelled homepage
MaxIds == 21

(***************************************************************************)
(* Program constants                                                       *)
(***************************************************************************)
\* .slice(0, 20) of the diagnostic listing
SectionsLimit == 20

\* .substring(0, 50) of the safe file name
SafeFilenameMax == 50

\* padStart(2, '0')
PadWidth == 2

(***************************************************************************)
(* Characters and strings                                                  *)
(***************************************************************************)
LowerChars == <<"a","b","c","d","e","f","g","h","i","j","k","l","m",
                "n","o","p","q","r","s","t","u","v","w","x","y","z">>
UpperChars == <<"A","B","C","D","E","F","G","H","I","J","K","L","M",
                "N","O","P","Q","R","S","T","U","V","W","X","Y","Z">>
DigitChars == <<"0","1","2","3","4","5","6","7","8","9">>

Range(s) == { s[k] : k \in DOMAIN s }

\* String.prototype.toLowerCase on one character
ToLowerCase(c) ==
    IF c \in Range(UpperChars)
    THEN LowerChars[CHOOSE k \in DOMAIN UpperChars : UpperChars[k] = c]
    ELSE c

\* the class [a-z0-9] under the i flag
IsAlnum(c) == c \in Range(LowerChars) \cup Range(UpperChars) \cup Range(DigitChars)

\* white space as String.prototype.trim understands it
IsSpace(c) == c \in {" ", "\t", "\n"}

RECURSIVE TrimStart(_)
TrimStart(s) ==
    IF s = <<>> THEN <<>>
    ELSE IF IsSpace(Head(s)) THEN TrimStart(Tail(s)) ELSE s

RECURSIVE TrimEnd(_)
TrimEnd(s) ==
    IF s = <<>> THEN <<>>
    ELSE IF IsSpace(s[Len(s)]) THEN TrimEnd(SubSeq(s, 1, Len(s) - 1)) ELSE s

\* String.prototype.trim
Trim(s) == TrimEnd(TrimStart(s))

\* variant: dots and slashes are kept as well
ReplaceNonAlnumKeepPath(s) ==
    [k \in DOMAIN s |-> IF IsAlnum(s[k]) \/ s[k] \in {".", "/"} THEN s[k] ELSE "-"]

\* .replace(/[^a-z0-9]/gi, '-')
ReplaceNonAlnum(s) == [k \in DOMAIN s |-> IF IsAlnum(s[k]) THEN s[k] ELSE "-"]

\* variant: .replace(/--/g, '-'), pairs of dashes only
RECURSIVE CollapseDashPairs(_)
CollapseDashPairs(s) ==
    IF Len(s) < 2 THEN s
    ELSE IF s[1] = "-" /\ s[2] = "-"
         THEN <<"-">> \o CollapseDashPairs(SubSeq(s, 3, Len(s)))
         ELSE <<s[1]>> \o CollapseDashPairs(Tail(s))

\* .replace(/-+/g, '-')
RECURSIVE CollapseDashes(_)
CollapseDashes(s) ==
    IF Len(s) < 2 THEN s
    ELSE IF s[1] = "-" /\ s[2] = "-" THEN CollapseDashes(Tail(s))
    ELSE <<s[1]>> \o CollapseDashes(Tail(s))

\* .substring(0, n)
Substring0(s, n) == SubSeq(s, 1, IF Len(s) < n THEN Len(s) ELSE n)

\* link.text.replace(..).replace(..).toLowerCase().substring(0, 50)
SafeFilename(text) ==
    Substring0([k \in DOMAIN CollapseDashes(ReplaceNonAlnum(text)) |->
                   ToLowerCase(CollapseDashes(ReplaceNonAlnum(text))[k])],
               SafeFilenameMax)

\* String.prototype.repeat
RECURSIVE Repeat(_, _)
Repeat(u, n) == IF n = 0 THEN <<>> ELSE u \o Repeat(u, n - 1)

\* String(n) for a positive integer
RECURSIVE NumToString(_)
NumToString(n) ==
    IF n < 10 THEN <<DigitChars[n + 1]>>
    ELSE NumToString(n \div 10) \o <<DigitChars[(n % 10) + 1]>>

\* String.prototype.padStart(w, '0')
RECURSIVE PadStart(_, _)
PadStart(s, w) == IF Len(s) >= w THEN s ELSE PadStart(<<"0">> \o s, w)

\* variant: the name is the sanitized text alone
FileStemNoNumber(linkNum, text) == SafeFilename(text)

\* `${String(linkNum).padStart(2, '0')}-${safeFilename}`
FileStem(linkNum, text) ==
    PadStart(NumToString(linkNum), PadWidth) \o <<"-">> \o SafeFilename(text)

ScreenshotFilename(linkNum, text) == FileStem(linkNum, text) \o <<".","p","n","g">>
MdFilename(linkNum, text) == FileStem(linkNum, text) \o <<".","m","d">>

(***************************************************************************)
(* The environment: the pages the browser can be shown                     *)
(***************************************************************************)
\* the anchors (a[href] elements) a modelled #main-wrapper is built from:
\* textContent, resolved href property and title attribute
HomeAnchors ==
    { [text |-> <<" ","A","b"," ">>, href |-> "/a", title |-> <<>>,    cls |-> "card"],
      [text |-> <<"B","/","c">>,     href |-> "/b", title |-> <<"T">>, cls |-> ""],
      [text |-> <<" ">>,             href |-> "/c", title |-> <<>>,    cls |-> "icon"],
      [text |-> <<"C">>,             href |-> "",   title |-> <<>>,    cls |-> "card"] }

SeqsUpTo(S, n) == UNION { [1..k -> S] : k \in 0..n }

\* a homepage: whether #main-wrapper exists, its anchors in document order,
\* and the elements of the page that carry an id
HomePages ==
    { [hasWrapper |-> TRUE, anchors |-> a, ids |-> 1] : a \in SeqsUpTo(HomeAnchors, MaxAnchors) }
    \cup { [hasWrapper |-> FALSE, anchors |-> <<>>, ids |-> n] : n \in {0, 2, MaxIds} }

(***************************************************************************)
(* Documents: a body is a sequence of nodes in document order; a node has  *)
(* a tag, one class, an id, a text and child nodes                         *)
(***************************************************************************)
El(tag, cls, id, text, kids) ==
    [tag |-> tag, cls |-> cls, id |-> id, text |-> text, kids |-> kids]

NoNode == [tag |-> "#none"]

\* a selector list: the tags, classes and ids it names
Sel(tags, classes, ids) == [tags |-> tags, classes |-> classes, ids |-> ids]

\* Element.matches(selector list)
Matches(n, sel) == n.tag \in sel.tags \/ n.cls \in sel.classes \/ n.id \in sel.ids

\* 'script, style, nav, header, footer, .nav, .menu, .sidebar'
StripSelector ==
    Sel({"script", "style", "nav", "header", "footer"}, {"nav", "menu", "sidebar"}, {})

\* 'main, article, .content, .main, #content', selector by selector
ContentSelectors ==
    << Sel({"main"}, {}, {}), Sel({"article"}, {}, {}), Sel({}, {"content"}, {}),
       Sel({}, {"main"}, {}), Sel({}, {}, {"content"}) >>

\* the same list as the one selector the code passes to querySelector
ContentSelector ==
    Sel(UNION { ContentSelectors[k].tags : k \in DOMAIN ContentSelectors },
        UNION { ContentSelectors[k].classes : k \in DOMAIN ContentSelectors },
        UNION { ContentSelectors[k].ids : k \in DOMAIN ContentSelectors })

\* querySelector: the first node, in document order, that matches the list
RECURSIVE QuerySelector(_, _)
QuerySelector(ns, sel) ==
    IF ns = <<>> THEN NoNode
    ELSE IF Matches(Head(ns), sel) THEN Head(ns)
    ELSE IF QuerySelector(Head(ns).kids, sel) # NoNode
         THEN QuerySelector(Head(ns).kids, sel)
         ELSE QuerySelector(Tail(ns), sel)

\* clone.querySelectorAll(StripSelector).forEach(el => el.remove())
RECURSIVE RemoveAll(_, _)
RemoveAll(ns, sel) ==
    IF ns = <<>> THEN <<>>
    ELSE IF Matches(Head(ns), sel) THEN RemoveAll(Tail(ns), sel)
    ELSE <<[Head(ns) EXCEPT !.kids = RemoveAll(Head(ns).kids, sel)]>>
            \o RemoveAll(Tail(ns), sel)

\* element.innerHTML: the text of the element, then its children
InnerHTML(n) ==
    (IF n.text = "" THEN <<>> ELSE <<El("#text", "", "", n.text, <<>>)>>) \o n.kids

\* document.querySelector(ContentSelector)?.innerHTML || clone.innerHTML
MainContent(body, clone) ==
    IF QuerySelector(body, ContentSelector) # NoNode
       /\ InnerHTML(QuerySelector(body, ContentSelector)) # <<>>
    THEN InnerHTML(QuerySelector(body, ContentSelector))
    ELSE clone

\* 'h1, h2, h3, h4, h5, h6'
HeadingSelector == Sel({"h1", "h2", "h3", "h4", "h5", "h6"}, {}, {})

\* querySelectorAll: every matching node, in document order
RECURSIVE QuerySelectorAll(_, _)
QuerySelectorAll(ns, sel) ==
    IF ns = <<>> THEN <<>>
    ELSE (IF Matches(Head(ns), sel) THEN <<Head(ns)>> ELSE <<>>)
            \o QuerySelectorAll(Head(ns).kids, sel)
            \o QuerySelectorAll(Tail(ns), sel)

\* node.textContent: the text of the node and of its descendants; the text
\* of a heading is a sequence of characters
RECURSIVE TextContent(_)
RECURSIVE TextContentOfAll(_)
TextContent(n) == n.text \o TextContentOfAll(n.kids)
TextContentOfAll(ns) ==
    IF ns = <<>> THEN <<>> ELSE TextContent(Head(ns)) \o TextContentOfAll(Tail(ns))

\* h.tagName of a heading element: "H1" .. "H6"
TagName(tag) ==
    <<"H", DigitChars[(CHOOSE v \in 1..6 : tag = <<"h1", "h2", "h3", "h4", "h5", "h6">>[v]) + 1]>>

\* headings: querySelectorAll(..).map(h => ({level: h.tagName, text: h.textContent.trim()}))
Headings(body) ==
    [k \in DOMAIN QuerySelectorAll(body, HeadingSelector) |->
        [level |-> TagName(QuerySelectorAll(body, HeadingSelector)[k].tag),
         text |-> Trim(TextContent(QuerySelectorAll(body, HeadingSelector)[k]))]]

\* parseInt(heading.level.charAt(1))
HeadingLevel(heading) == CHOOSE v \in 0..9 : DigitChars[v + 1] = heading.level[2]

\* `${'  '.repeat(level - 1)}- ${heading.text}\n`
HeadingLine(heading) ==
    Repeat(<<" ", " ">>, HeadingLevel(heading) - 1) \o <<"-", " ">> \o heading.text \o <<"\n">>

\* the lines pageData.headings.forEach appends to the markdown
RECURSIVE HeadingLines(_)
HeadingLines(hs) ==
    IF hs = <<>> THEN <<>> ELSE HeadingLine(Head(hs)) \o HeadingLines(Tail(hs))

\* the 'Page Structure' part of the content document
PageStructure(headings) ==
    IF Len(headings) > 0
    THEN [section |-> TRUE, list |-> HeadingLines(headings)]
    ELSE [section |-> FALSE, list |-> <<>>]

\* node.cloneNode(true): the object `to` becomes a deep copy of `from`
CloneNode(heap, from, to) == [heap EXCEPT ![to] = heap[from]]

\* variant: const clone = document.body, the body itself
BodyCloneAlias == "live"

\* the object the name `clone` refers to: const clone = document.body.cloneNode(true)
BodyClone == "clone"

\* the objects of the page after cloning and after the removals on `clone`
AfterStrip(body) ==
    [CloneNode([live |-> body, clone |-> <<>>], "live", "clone")
        EXCEPT ![BodyClone] = RemoveAll(@, StripSelector)]

\* the content page.evaluate: the document it leaves behind and its value
EvaluateContent(doc) ==
    [document |-> [doc EXCEPT !.body = AfterStrip(doc.body).live],
     pageData |->
        [title |-> doc.title, url |-> doc.url, metaDescription |-> doc.metaDescription,
         bodyHTML |-> AfterStrip(doc.body)[BodyClone],
         mainContent |-> MainContent(AfterStrip(doc.body).live,
                                     AfterStrip(doc.body)[BodyClone]),
         headings |-> Headings(AfterStrip(doc.body).live)]]

\* the value of the content page.evaluate for a document
PageData(doc) == EvaluateContent(doc).pageData

P(text) == El("p", "", "", text, <<>>)

\* what the browser shows after navigating to a link: document.title,
\* window.location.href (after redirects) and the meta description
PageAt(href) ==
    IF href = "/a"
    THEN [title |-> "Page A", url |-> "/a", metaDescription |-> "About A",
          body |-> << El("nav", "", "", "menu", <<>>),
                      El("article", "", "", "", <<P("teaser")>>),
                      El("main", "", "", "", <<P("idea")>>),
                      El("footer", "", "", "imprint", <<>>) >>]
    ELSE [title |-> "", url |-> href \o "/index", metaDescription |-> "",
          body |-> << El("header", "", "", "logo", <<>>),
                      El("div", "content", "", "",
                         <<El("script", "", "", "track()", <<>>), P("text")>>) >>]

\* values of new Date().toISOString() read when the index header is built
Dates == {"2025-07-14T08:00:00.000Z", "2025-07-15T08:00:00.000Z"}

\* error.message of the errors the collaborators raise
LaunchErrors == {"Failed to launch the browser process"}
NavigationErrors == {"Navigation timeout of 30000 ms exceeded", "net::ERR_CONNECTION_REFUSED"}
ProtocolErrors == {"Protocol error: Target closed"}
EvaluationErrors == {"Evaluation failed"}
ScreenshotErrors == {"Protocol error (Page.captureScreenshot)"}
WriteErrors == {"ENOSPC: no space left on device"}

NoError == "<none>"
NoFile == <<[absent |-> TRUE]>>

(***************************************************************************)
(* The in-page extraction of the crawler                                   *)
(***************************************************************************)
\* .map(a => ({text: a.textContent.trim(), href: a.href,
\*             title: a.title || a.textContent.trim()}))
MapAnchor(a) ==
    [text |-> Trim(a.text), href |-> a.href,
     title |-> IF a.title # <<>> THEN a.title ELSE Trim(a.text)]

\* variant: the filter tests the href only
KeepLinkHrefOnly(link) == link.href # ""

\* .filter(link => link.href && link.text)
KeepLink(link) == link.href # "" /\ link.text # <<>>

RECURSIVE FilterLinks(_)
FilterLinks(s) ==
    IF s = <<>> THEN <<>>
    ELSE IF KeepLink(Head(s)) THEN <<Head(s)>> \o FilterLinks(Tail(s))
    ELSE FilterLinks(Tail(s))

\* variant: an extraction that keeps only the first link of each href
RECURSIVE DedupByHref(_, _)
DedupByHref(s, seen) ==
    IF s = <<>> THEN <<>>
    ELSE IF Head(s).href \in seen THEN DedupByHref(Tail(s), seen)
    ELSE <<Head(s)>> \o DedupByHref(Tail(s), seen \cup {Head(s).href})

ExtractLinksDedup(anchors) ==
    DedupByHref(FilterLinks([k \in DOMAIN anchors |-> MapAnchor(anchors[k])]), {})

\* Array.from(mainWrapper.querySelectorAll('a[href]')).map(..).filter(..)
ExtractLinks(anchors) == FilterLinks([k \in DOMAIN anchors |-> MapAnchor(anchors[k])])

\* el.removeAttribute('class') on every element
RemoveClasses(els) == [k \in DOMAIN els |-> [els[k] EXCEPT !.cls = ""]]

\* the object the name `clone` refers to: const clone = mainWrapper.cloneNode(true)
WrapperClone == "clone"

\* the container and its clone after the class attributes were removed
AfterRemoveClasses(anchors) ==
    [[live |-> anchors, clone |-> anchors] EXCEPT ![WrapperClone] = RemoveClasses(@)]

\* the links and the inner HTML of the class-stripped clone, and the page
\* the evaluate leaves behind
EvaluateWrapper(page) ==
    [page |-> [page EXCEPT !.anchors = AfterRemoveClasses(page.anchors).live],
     data |-> [links |-> ExtractLinks(page.anchors),
               mainWrapperHTML |-> AfterRemoveClasses(page.anchors)[WrapperClone]]]

\* variant: a missing container treated as an empty one, without a signal
EvaluateMainWrapperNoSignal(page) == EvaluateWrapper(page).data

\* the value of the first page.evaluate: an error object when #main-wrapper
\* is missing, else the links and the inner HTML of the class-stripped clone
EvaluateMainWrapper(page) ==
    IF ~page.hasWrapper
    THEN [error |-> "Could not find #main-wrapper element"]
    ELSE EvaluateWrapper(page).data

\* Array.from(document.querySelectorAll('[id]')).map(..).slice(0, 20)
Sections(page) ==
    [k \in 1..(IF page.ids < SectionsLimit THEN page.ids ELSE SectionsLimit) |-> k]

(***************************************************************************)
(* Index entries and results of the crawler                                *)
(***************************************************************************)
\* the header appended to indexMd before the loop
IndexHeader(date, total) == [kind |-> "header", date |-> date, total |-> total]

\* variant: the entry lists the href of the link instead of the page's URL
IndexEntryLinkUrl(linkNum, link, pageData) ==
    [kind |-> "entry", num |-> linkNum, text |-> link.text,
     file |-> MdFilename(linkNum, link.text),
     url |-> link.href, title |-> pageData.title,
     description |-> pageData.metaDescription,
     preview |-> ScreenshotFilename(linkNum, link.text)]

\* the block appended to indexMd after a link was written
IndexEntry(linkNum, link, pageData) ==
    [kind |-> "entry", num |-> linkNum, text |-> link.text,
     file |-> MdFilename(linkNum, link.text),
     url |-> pageData.url, title |-> pageData.title,
     description |-> pageData.metaDescription,
     preview |-> ScreenshotFilename(linkNum, link.text)]

\* variant: the error block also names a content document
IndexErrorWithFile(linkNum, link, message) ==
    [kind |-> "error", num |-> linkNum, text |-> link.text,
     url |-> link.href, error |-> message,
     file |-> MdFilename(linkNum, link.text)]

\* the block appended to indexMd in the catch of a link
IndexError(linkNum, link, message) ==
    [kind |-> "error", num |-> linkNum, text |-> link.text,
     url |-> link.href, error |-> message]

\* results.push({success: true, ...})
SuccessResult(linkNum, link, pageData) ==
    [success |-> TRUE, link |-> link.text, url |-> pageData.url,
     filename |-> MdFilename(linkNum, link.text)]

\* variant: a failure result that also carries an output file field
FailureResultWithFile(link, message) ==
    [success |-> FALSE, link |-> link.text, url |-> link.href, error |-> message,
     filename |-> <<>>]

\* results.push({success: false, ...})
FailureResult(link, message) ==
    [success |-> FALSE, link |-> link.text, url |-> link.href, error |-> message]

\* variant: only successes are recorded
PushResultDropFailure(rs, r) == IF r.success THEN Append(rs, r) ELSE rs

\* variant: results.unshift(r)
PushResultFront(rs, r) == <<r>> \o rs

\* results.push(r)
PushResult(rs, r) == Append(rs, r)

\* variant: error blocks are left out of the index
AppendIndexDropErrors(md, block) == IF block.kind = "error" THEN md ELSE Append(md, block)

\* indexMd += block
AppendIndex(md, block) == Append(md, block)

(***************************************************************************)
(* State                                                                   *)
(***************************************************************************)
VARIABLES
    script,          \* which script this run executes
    homepage,        \* the homepage the browser is shown (environment)
    pc,              \* position of the async function
    browser,         \* the `browser` variable: "undefined", "open", "closed"
    fatal,           \* message logged by the outer catch, or NoError
    exitCode,        \* process exit status once the run has ended, else -1
    mainWrapperData, \* value of the first page.evaluate of the crawler
    links,           \* the `links` constant of the crawler
    sections,        \* the diagnostic listing logged when the container is missing
    i,               \* loop index (0-based, as in the code)
    pageData,        \* value of the content page.evaluate of the current link
    indexMd,         \* the index text under construction, block by block
    results,         \* the `results` array
    gotoLog,         \* hrefs page.goto was called with inside the loop, in order
    files,           \* per-link artifacts on disk: [dir, name]
    htmlFile,        \* main-wrapper.html, or NoFile
    indexFile,       \* INDEX.md, or NoFile
    resultsFile,     \* results.json, or NoFile
    step,            \* position in the step table (scripts other than the crawler)
    subCount,        \* number of subpages the subpage loop visits
    subVisited,      \* subpage indexes whose navigation was issued, in order
    inflight,        \* calls on the browser session issued and not yet settled
    arg,             \* input of the function applied (function-level specifications)
    out              \* its value

vars == <<script, homepage, pc, browser, fatal, exitCode, mainWrapperData, links,
          sections, i, pageData, indexMd, results, gotoLog, files, htmlFile,
          indexFile, resultsFile, step, subCount, subVisited, inflight, arg, out>>

crawlerVars == <<mainWrapperData, links, sections, i, pageData, indexMd, results,
                 gotoLog, files, htmlFile, indexFile, resultsFile>>

tableVars == <<step, subCount, subVisited>>

NoData == [none |-> TRUE]

(***************************************************************************)
(* The other scripts, as tables of the steps that can throw.               *)
(*   op      the awaited call or synchronous write                         *)
(*   line    its line in the source                                        *)
(*   catchTo 0 when an exception of the step reaches the outer catch, else *)
(*           the step at which control resumes after the inner catch       *)
(*   cond    0 when the step is unconditional, else the step at which      *)
(*           control resumes when the enclosing if is not taken            *)
(*   loop    TRUE for the steps of the body of the subpage loop, whose     *)
(*           inner catch ends the iteration                                *)
(***************************************************************************)
St(op, line, catchTo, cond, loop) ==
    [op |-> op, line |-> line, catchTo |-> catchTo, cond |-> cond, loop |-> loop]

\* screenshot-enhanced.js
EnhancedSteps ==
    << St("mkdir", 20, 0, 0, FALSE),        St("launch", 30, 0, 0, FALSE),
       St("newPage", 35, 0, 0, FALSE),      St("setViewport", 38, 0, 0, FALSE),
       St("goto", 46, 0, 0, FALSE),         St("evaluate", 61, 0, 0, FALSE),
       St("evaluate", 81, 0, 0, FALSE),     St("$$eval", 96, 9, 0, FALSE),
       St("autoScroll", 114, 0, 0, FALSE),  St("$", 130, 11, 0, FALSE),
       St("evaluate", 145, 0, 0, FALSE),    St("evaluate", 170, 0, 0, FALSE),
       St("screenshot", 174, 0, 0, FALSE),  St("screenshot", 183, 0, 0, FALSE),
       St("write", 198, 0, 0, FALSE) >>

\* screenshot-practical-deep-dive.js
PracticalSteps ==
    << St("launch", 15, 0, 0, FALSE),       St("newPage", 21, 0, 0, FALSE),
       St("mkdir", 27, 0, 0, FALSE),        St("goto", 36, 0, 0, FALSE),
       St("evaluate", 42, 0, 0, FALSE),     St("write", 92, 0, 0, FALSE),
       St("screenshot", 98, 0, 0, FALSE),   St("evaluate", 110, 0, 0, FALSE),
       St("screenshot", 131, 0, 0, FALSE),  St("evaluate", 142, 0, 0, FALSE),
       St("write", 164, 0, 0, FALSE),       St("evaluate", 175, 0, 0, FALSE),
       St("click", 212, 15, 15, FALSE),     St("screenshot", 215, 15, 0, FALSE),
       St("goto", 240, 0, 0, TRUE),         St("evaluate", 248, 0, 0, TRUE),
       St("screenshot", 259, 0, 0, TRUE),   St("write", 265, 0, 0, TRUE),
       St("goto", 282, 0, 0, FALSE),        St("evaluate", 284, 0, 0, FALSE),
       St("write", 317, 0, 0, FALSE),       St("metrics", 328, 0, 0, FALSE),
       St("evaluate", 331, 0, 0, FALSE),    St("write", 341, 0, 0, FALSE) >>

\* the unnamed deep-navigation script (src/unnamed/part_000)
DeepSteps ==
    << St("launch", 21, 0, 0, FALSE),       St("newPage", 26, 0, 0, FALSE),
       St("setViewport", 27, 0, 0, FALSE),  St("mkdir", 32, 0, 0, FALSE),
       St("goto", 39, 0, 0, FALSE),         St("screenshot", 45, 0, 0, FALSE),
       St("evaluate", 52, 0, 0, FALSE),
       St("goto", 76, 0, 0, TRUE),          St("evaluate", 84, 0, 0, TRUE),
       St("screenshot", 94, 0, 0, TRUE),
       St("goto", 109, 0, 0, FALSE),        St("$", 113, 15, 0, FALSE),
       St("click", 116, 15, 15, FALSE),     St("screenshot", 119, 15, 0, FALSE),
       St("evaluate", 137, 0, 0, FALSE),    St("$", 147, 19, 19, FALSE),
       St("type", 150, 19, 19, FALSE),      St("screenshot", 153, 19, 0, FALSE),
       St("goto", 170, 0, 0, FALSE),        St("evaluate", 173, 0, 0, FALSE),
       St("screenshot", 200, 0, 0, FALSE),  St("goto", 211, 0, 0, FALSE),
       St("evaluate", 213, 0, 0, FALSE),    St("write", 254, 0, 0, FALSE),
       St("cookies", 270, 0, 0, FALSE),     St("setCookie", 274, 0, 0, FALSE),
       St("evaluate", 282, 0, 0, FALSE),    St("goto", 313, 0, 0, FALSE),
       St("write", 320, 0, 0, FALSE) >>

Steps(sc) ==
    CASE sc = "enhanced"  -> EnhancedSteps
      [] sc = "practical" -> PracticalSteps
      [] sc = "deep"      -> DeepSteps
      [] OTHER            -> <<>>

TableScripts == {"enhanced", "practical", "deep"}

(***************************************************************************)
(* Calls in flight on the browser session                                  *)
(***************************************************************************)
\* the steps of the tables that are synchronous file-system calls
SyncOps == {"mkdir", "write"}

\* the awaited browser call that is pending at a position of the crawler
CrawlerOp(p) ==
    CASE p = "Idle"            -> "launch"
      [] p = "NewPage"         -> "newPage"
      [] p = "Configure"       -> "configure"
      [] p = "FetchingIndex"   -> "goto"
      [] p = "ExtractingLinks" -> "evaluate"
      [] p = "ListSections"    -> "evaluate"
      [] p = "Navigate"        -> "goto"
      [] p = "Scroll"          -> "evaluate"
      [] p = "Screenshot"      -> "screenshot"
      [] p = "Extract"         -> "evaluate"
      [] OTHER                 -> "none"

\* the calls awaited at a position: every call is awaited before the next
\* statement runs, so a position awaits at most its own call
Pending(sc, p, st, b) ==
    IF p = "Finally" THEN (IF b = "open" THEN {"close"} ELSE {})
    ELSE IF sc = "crawler"
         THEN (IF CrawlerOp(p) = "none" THEN {} ELSE {CrawlerOp(p)})
    ELSE IF p = "Step" /\ st \in 1..Len(Steps(sc)) /\ Steps(sc)[st].op \notin SyncOps
         THEN {Steps(sc)[st].op}
    ELSE {}

\* variant: a call that is not awaited stays in flight while the next is issued
SettleNever(pending, done) == pending

\* `await`: the statement after a call runs once the call has settled
Settle(pending, done) == pending \ done

\* one step of a run: the awaited call settles, the next one is issued
InFlightStep ==
    inflight' = Settle(inflight, Pending(script, pc, step, browser))
                   \cup Pending(script, pc', step', browser')

(***************************************************************************)
(* The crawler: screenshot-first-section-crawler.js                        *)
(***************************************************************************)
\* variant: the homepage load wrapped in a try of its own that swallows the error
OuterCatchSwallow(at) == IF at = "FetchingIndex" THEN "ExtractingLinks" ELSE "Finally"

\* where an exception thrown at position `at` is handled: no call before the
\* loop or after it has a try of its own, so it is the outer catch, then finally
OuterCatchTarget(at) == "Finally"

\* an exception reaches the outer catch: it is logged, then finally runs
Throw(message) ==
    /\ fatal' = message
    /\ pc' = OuterCatchTarget(pc)

\* variant: the loop is left after its first iteration
NextIterationLeaveEarly(idx, n) == "WritingIndex"

\* the for loop's test after iteration idx of n: next link, or leave the loop
NextIteration(idx, n) == IF idx + 1 < n THEN "Navigate" ELSE "WritingIndex"

\* variant: the error of a link leaves the loop (no try around the body)
PcAfterLinkErrorAbort(idx, n) == "Finally"

\* where control goes after the catch block of a link
PcAfterLinkError(idx, n) == NextIteration(idx, n)

\* variant: the iteration is repeated
NextIndexRetry(idx) == idx

\* i++ at the end of an iteration
NextIndex(idx) == idx + 1

\* browser = await puppeteer.launch(..)
Launch ==
    /\ script = "crawler" /\ pc = "Idle"
    /\ \/ /\ browser' = "open"
          /\ pc' = "NewPage"
          /\ UNCHANGED fatal
       \/ /\ \E m \in LaunchErrors : Throw(m)
          /\ UNCHANGED browser
    /\ UNCHANGED <<arg, out, script, homepage, exitCode, crawlerVars, tableVars>>
    /\ InFlightStep

\* const page = await browser.newPage()
NewPage ==
    /\ script = "crawler" /\ pc = "NewPage"
    /\ \/ pc' = "Configure" /\ UNCHANGED fatal
       \/ \E m \in ProtocolErrors : Throw(m)
    /\ UNCHANGED <<arg, out, script, homepage, browser, exitCode, crawlerVars, tableVars>>
    /\ InFlightStep

\* setUserAgent, setExtraHTTPHeaders, evaluateOnNewDocument, then mkdirSync
Configure ==
    /\ script = "crawler" /\ pc = "Configure"
    /\ \/ pc' = "FetchingIndex" /\ UNCHANGED fatal
       \/ \E m \in ProtocolErrors \cup WriteErrors : Throw(m)
    /\ UNCHANGED <<arg, out, script, homepage, browser, exitCode, crawlerVars, tableVars>>
    /\ InFlightStep

\* await page.goto('https://www.ideabrowser.com/', ..)
FetchIndex ==
    /\ script = "crawler" /\ pc = "FetchingIndex"
    /\ \/ pc' = "ExtractingLinks" /\ UNCHANGED fatal
       \/ \E m \in NavigationErrors : Throw(m)
    /\ UNCHANGED <<arg, out, script, homepage, browser, exitCode, crawlerVars, tableVars>>
    /\ InFlightStep

\* the first page.evaluate and the synchronous code up to the next await
ExtractingLinks ==
    /\ script = "crawler" /\ pc = "ExtractingLinks"
    /\ \/ \* the evaluation itself fails
          /\ \E m \in EvaluationErrors : Throw(m)
          /\ UNCHANGED crawlerVars
       \/ \* #main-wrapper is missing
          /\ "error" \in DOMAIN EvaluateMainWrapper(homepage)
          /\ mainWrapperData' = EvaluateMainWrapper(homepage)
          /\ pc' = "ListSections"
          /\ UNCHANGED <<fatal, links, sections, i, pageData, indexMd, results,
                         gotoLog, files, htmlFile, indexFile, resultsFile>>
       \/ \* writing main-wrapper.html fails
          /\ "error" \notin DOMAIN EvaluateMainWrapper(homepage)
          /\ EvaluateMainWrapper(homepage).mainWrapperHTML # <<>>
          /\ mainWrapperData' = EvaluateMainWrapper(homepage)
          /\ links' = EvaluateMainWrapper(homepage).links
          /\ \E m \in WriteErrors : Throw(m)
          /\ UNCHANGED <<sections, i, pageData, indexMd, results,
                         gotoLog, files, htmlFile, indexFile, resultsFile>>
       \/ \* no link: early return
          /\ "error" \notin DOMAIN EvaluateMainWrapper(homepage)
          /\ EvaluateMainWrapper(homepage).links = <<>>
          /\ mainWrapperData' = EvaluateMainWrapper(homepage)
          /\ links' = <<>>
          /\ htmlFile' = IF EvaluateMainWrapper(homepage).mainWrapperHTML # <<>>
                         THEN EvaluateMainWrapper(homepage).mainWrapperHTML
                         ELSE htmlFile
          /\ pc' = "Finally"
          /\ UNCHANGED <<fatal, sections, i, pageData, indexMd, results,
                         gotoLog, files, indexFile, resultsFile>>
       \/ \* links found: build the index header and enter the loop
          /\ "error" \notin DOMAIN EvaluateMainWrapper(homepage)
          /\ EvaluateMainWrapper(homepage).links # <<>>
          /\ mainWrapperData' = EvaluateMainWrapper(homepage)
          /\ links' = EvaluateMainWrapper(homepage).links
          /\ htmlFile' = EvaluateMainWrapper(homepage).mainWrapperHTML
          /\ \E d \in Dates :
                indexMd' = <<IndexHeader(d, Len(EvaluateMainWrapper(homepage).links))>>
          /\ results' = <<>>
          /\ i' = 0
          /\ pc' = "Navigate"
          /\ UNCHANGED <<fatal, sections, pageData, gotoLog, files, indexFile, resultsFile>>
    /\ UNCHANGED <<arg, out, script, homepage, browser, exitCode, tableVars>>
    /\ InFlightStep

\* the diagnostic page.evaluate after the container was not found, then return
ListSections ==
    /\ script = "crawler" /\ pc = "ListSections"
    /\ \/ /\ sections' = Sections(homepage)
          /\ pc' = "Finally"
          /\ UNCHANGED fatal
       \/ /\ \E m \in EvaluationErrors : Throw(m)
          /\ UNCHANGED sections
    /\ UNCHANGED <<arg, out, script, homepage, browser, exitCode, mainWrapperData, links, i,
                   pageData, indexMd, results, gotoLog, files, htmlFile, indexFile,
                   resultsFile, tableVars>>
    /\ InFlightStep

\* the catch block of one link: index error block, failure result, next link
LinkError(message) ==
    /\ indexMd' = AppendIndex(indexMd, IndexError(i + 1, links[i + 1], message))
    /\ results' = PushResult(results, FailureResult(links[i + 1], message))
    /\ i' = NextIndex(i)
    /\ pc' = PcAfterLinkError(i, Len(links))

\* await page.goto(link.href, ..)
Navigate ==
    /\ script = "crawler" /\ pc = "Navigate"
    /\ gotoLog' = Append(gotoLog, links[i + 1].href)
    /\ \/ /\ pc' = "Scroll"
          /\ UNCHANGED <<i, indexMd, results>>
       \/ \E m \in NavigationErrors : LinkError(m)
    /\ UNCHANGED <<arg, out, script, homepage, browser, fatal, exitCode, mainWrapperData, links,
                   sections, pageData, files, htmlFile, indexFile, resultsFile, tableVars>>
    /\ InFlightStep

\* the in-page scroll
Scroll ==
    /\ script = "crawler" /\ pc = "Scroll"
    /\ \/ /\ pc' = "Screenshot"
          /\ UNCHANGED <<i, indexMd, results>>
       \/ \E m \in EvaluationErrors : LinkError(m)
    /\ UNCHANGED <<arg, out, script, homepage, browser, fatal, exitCode, mainWrapperData, links,
                   sections, pageData, gotoLog, files, htmlFile, indexFile, resultsFile,
                   tableVars>>
    /\ InFlightStep

\* await page.screenshot({path: screenshotPath, fullPage: true})
Screenshot ==
    /\ script = "crawler" /\ pc = "Screenshot"
    /\ \/ /\ files' = files \cup {[dir |-> "images",
                                   name |-> ScreenshotFilename(i + 1, links[i + 1].text)]}
          /\ pc' = "Extract"
          /\ UNCHANGED <<i, indexMd, results>>
       \/ /\ \E m \in ScreenshotErrors : LinkError(m)
          /\ UNCHANGED files
    /\ UNCHANGED <<arg, out, script, homepage, browser, fatal, exitCode, mainWrapperData, links,
                   sections, pageData, gotoLog, htmlFile, indexFile, resultsFile, tableVars>>
    /\ InFlightStep

\* const pageData = await page.evaluate(..)
Extract ==
    /\ script = "crawler" /\ pc = "Extract"
    /\ \/ /\ pageData' = PageData(PageAt(links[i + 1].href))
          /\ pc' = "WriteMd"
          /\ UNCHANGED <<i, indexMd, results>>
       \/ /\ \E m \in EvaluationErrors : LinkError(m)
          /\ UNCHANGED pageData
    /\ UNCHANGED <<arg, out, script, homepage, browser, fatal, exitCode, mainWrapperData, links,
                   sections, gotoLog, files, htmlFile, indexFile, resultsFile, tableVars>>
    /\ InFlightStep

\* convert, fs.writeFileSync(mdPath, markdown), index block, results.push
WriteMd ==
    /\ script = "crawler" /\ pc = "WriteMd"
    /\ \/ /\ files' = files \cup {[dir |-> "out", name |-> MdFilename(i + 1, links[i + 1].text)]}
          /\ indexMd' = AppendIndex(indexMd, IndexEntry(i + 1, links[i + 1], pageData))
          /\ results' = PushResult(results, SuccessResult(i + 1, links[i + 1], pageData))
          /\ i' = NextIndex(i)
          /\ pc' = NextIteration(i, Len(links))
       \/ /\ \E m \in WriteErrors : LinkError(m)
          /\ UNCHANGED files
    /\ UNCHANGED <<arg, out, script, homepage, browser, fatal, exitCode, mainWrapperData, links,
                   sections, pageData, gotoLog, htmlFile, indexFile, resultsFile, tableVars>>
    /\ InFlightStep

\* fs.writeFileSync(indexPath, indexMd)
WritingIndex ==
    /\ script = "crawler" /\ pc = "WritingIndex"
    /\ \/ /\ indexFile' = indexMd
          /\ pc' = "WritingResults"
          /\ UNCHANGED fatal
       \/ /\ \E m \in WriteErrors : Throw(m)
          /\ UNCHANGED indexFile
    /\ UNCHANGED <<arg, out, script, homepage, browser, exitCode, mainWrapperData, links, sections,
                   i, pageData, indexMd, results, gotoLog, files, htmlFile, resultsFile,
                   tableVars>>
    /\ InFlightStep

\* fs.writeFileSync(resultsPath, JSON.stringify(results, null, 2))
WritingResults ==
    /\ script = "crawler" /\ pc = "WritingResults"
    /\ \/ /\ resultsFile' = results
          /\ pc' = "Finally"
          /\ UNCHANGED fatal
       \/ /\ \E m \in WriteErrors : Throw(m)
          /\ UNCHANGED resultsFile
    /\ UNCHANGED <<arg, out, script, homepage, browser, exitCode, mainWrapperData, links, sections,
                   i, pageData, indexMd, results, gotoLog, files, htmlFile, indexFile,
                   tableVars>>
    /\ InFlightStep

(***************************************************************************)
(* The subpage loop and the steps of the table scripts                     *)
(***************************************************************************)
\* .slice(0, 3) / Math.min(links.length, 3) of the subpage loops
SubpageLimit == 3

\* the most internal links the homepage of a deep-dive run exposes
MaxFound == 4

\* variant: every link found is visited
SubpagesToVisitAll(found) == found

\* number of iterations of the subpage loop for `found` internal links
SubpagesToVisit(found) == IF found < SubpageLimit THEN found ELSE SubpageLimit

\* first step of the loop body that contains step k
LoopStart(S, k) == CHOOSE j \in 1..k :
    /\ \A m \in j..k : S[m].loop
    /\ (j = 1 \/ ~S[j - 1].loop)

\* first step after the loop body that contains step k (Len(S) + 1: the end)
AfterLoop(S, k) == CHOOSE j \in (k + 1)..(Len(S) + 1) :
    /\ \A m \in k..(j - 1) : S[m].loop
    /\ (j = Len(S) + 1 \/ ~S[j].loop)

\* control arrives at step j: the end of the try block, a loop whose test
\* fails at once, or the step itself
GoTo(S, j, n) ==
    IF j > Len(S) THEN pc' = "Finally" /\ step' = 0
    ELSE IF S[j].loop /\ n = 0
         THEN IF AfterLoop(S, j) > Len(S)
              THEN pc' = "Finally" /\ step' = 0
              ELSE pc' = "Step" /\ step' = AfterLoop(S, j)
         ELSE pc' = "Step" /\ step' = j

\* an iteration of the subpage loop ends (normally or through its catch)
IterationEnd(S, k) ==
    /\ i' = i + 1
    /\ IF i + 1 < subCount
       THEN pc' = "Step" /\ step' = LoopStart(S, k)
       ELSE GoTo(S, AfterLoop(S, k), 1)

\* the browser variable after a step returned normally
BrowserAfter(op, b) == IF op = "launch" THEN "open" ELSE b

\* a step returns normally
StepOk ==
    /\ script \in TableScripts /\ pc = "Step"
    /\ LET S == Steps(script) IN
       /\ browser' = BrowserAfter(S[step].op, browser)
       /\ subCount' = subCount
       /\ subVisited' = IF S[step].loop /\ S[step].op = "goto"
                        THEN Append(subVisited, i + 1) ELSE subVisited
       /\ IF S[step].loop
          THEN IF step < Len(S) /\ S[step + 1].loop
               THEN pc' = "Step" /\ step' = step + 1 /\ i' = i
               ELSE IterationEnd(S, step)
          ELSE GoTo(S, step + 1, subCount) /\ i' = i
    /\ UNCHANGED <<arg, out, script, homepage, fatal, exitCode, mainWrapperData, links, sections,
                   pageData, indexMd, results, gotoLog, files, htmlFile, indexFile,
                   resultsFile>>
    /\ InFlightStep

\* a step throws: inner catch of the loop, inner catch of a try, or outer catch
StepFail ==
    /\ script \in TableScripts /\ pc = "Step"
    /\ LET S == Steps(script) IN
       /\ subCount' = subCount
       /\ subVisited' = IF S[step].loop /\ S[step].op = "goto"
                        THEN Append(subVisited, i + 1) ELSE subVisited
       /\ IF S[step].loop
          THEN IterationEnd(S, step) /\ UNCHANGED fatal
          ELSE IF S[step].catchTo # 0
               THEN GoTo(S, S[step].catchTo, subCount) /\ i' = i /\ UNCHANGED fatal
               ELSE /\ \E m \in ProtocolErrors : Throw(m)
                    /\ step' = step /\ i' = i
    /\ UNCHANGED <<arg, out, script, homepage, browser, exitCode, mainWrapperData, links, sections,
                   pageData, indexMd, results, gotoLog, files, htmlFile, indexFile,
                   resultsFile>>
    /\ InFlightStep

\* the if around a step is not taken
StepSkip ==
    /\ script \in TableScripts /\ pc = "Step"
    /\ LET S == Steps(script) IN
       /\ S[step].cond # 0
       /\ GoTo(S, S[step].cond, subCount)
    /\ UNCHANGED <<arg, out, script, homepage, browser, fatal, exitCode, crawlerVars, subCount,
                   subVisited>>
    /\ InFlightStep

(***************************************************************************)
(* finally, and the end of the process (all scripts)                       *)
(***************************************************************************)
\* variant: the browser is left as it is
CloseBrowserSkip(b) == b

\* if (browser) { await browser.close(); }
CloseBrowser(b) == IF b = "open" THEN "closed" ELSE b

\* variant: no script rethrows from its outer catch
RethrowsNever(sc) == FALSE

\* only screenshot-enhanced.js rethrows from its catch and exits in .catch
Rethrows(sc) == sc = "enhanced"

Finally ==
    /\ pc = "Finally"
    /\ browser' = CloseBrowser(browser)
    /\ IF Rethrows(script) /\ fatal # NoError
       THEN pc' = "Rejected" /\ UNCHANGED exitCode
       ELSE pc' = "Done" /\ exitCode' = 0
    /\ UNCHANGED <<arg, out, script, homepage, fatal, crawlerVars, tableVars>>
    /\ InFlightStep

\* .catch(error => { console.error(..); process.exit(1); })
ProcessExit ==
    /\ pc = "Rejected"
    /\ pc' = "Exited"
    /\ exitCode' = 1
    /\ UNCHANGED <<arg, out, script, homepage, browser, fatal, crawlerVars, tableVars>>
    /\ InFlightStep

(***************************************************************************)
(* Specification                                                           *)
(***************************************************************************)
\* the locals of a run before its first statement
Fresh ==
    /\ browser = "undefined"
    /\ fatal = NoError
    /\ exitCode = -1
    /\ mainWrapperData = NoData
    /\ links = <<>>
    /\ sections = <<>>
    /\ i = 0
    /\ pageData = NoData
    /\ indexMd = <<>>
    /\ results = <<>>
    /\ gotoLog = <<>>
    /\ files = {}
    /\ htmlFile = NoFile
    /\ indexFile = NoFile
    /\ resultsFile = NoFile
    /\ subVisited = <<>>

Init ==
    /\ script \in {"crawler"} \cup TableScripts
    /\ IF script = "crawler"
       THEN /\ homepage \in HomePages
            /\ pc = "Idle"
            /\ step = 0
            /\ subCount = 0
       ELSE /\ homepage = [hasWrapper |-> FALSE, anchors |-> <<>>, ids |-> 0]
            /\ pc = "Step"
            /\ step = 1
            /\ subCount \in { SubpagesToVisit(f) : f \in 0..MaxFound }
    /\ Fresh
    /\ inflight = Pending(script, pc, step, browser)
    /\ arg = NoData
    /\ out = NoData

Next ==
    \/ Launch
    \/ NewPage
    \/ Configure
    \/ FetchIndex
    \/ ExtractingLinks
    \/ ListSections
    \/ Navigate
    \/ Scroll
    \/ Screenshot
    \/ Extract
    \/ WriteMd
    \/ WritingIndex
    \/ WritingResults
    \/ StepOk
    \/ StepFail
    \/ StepSkip
    \/ Finally
    \/ ProcessExit

Spec == Init /\ [][Next]_vars

(***************************************************************************)
(* The index text as a whole (function-level specification)                *)
(***************************************************************************)
\* error.message of the errors the catch of a link can see
LinkErrors == NavigationErrors \cup EvaluationErrors \cup ScreenshotErrors \cup WriteErrors

\* the link lists the extraction can return
LinkLists == { ExtractLinks(a) : a \in SeqsUpTo(HomeAnchors, MaxAnchors) } \ {<<>>}

\* the results link k of ls can be recorded with
Outcomes(ls, k) ==
    { SuccessResult(k, ls[k], PageAt(ls[k].href)) }
       \cup { FailureResult(ls[k], m) : m \in LinkErrors }

\* the result lists a run over the first k links of ls can have recorded
RECURSIVE ResultsUpTo(_, _)
ResultsUpTo(ls, k) ==
    IF k = 0 THEN {<<>>}
    ELSE { Append(rs, r) : rs \in ResultsUpTo(ls, k - 1), r \in Outcomes(ls, k) }

\* the result lists a run over the links ls can end with
ResultLists(ls) == ResultsUpTo(ls, Len(ls))

\* the index text the run builds: the header, then one block per link in
\* loop order, an entry after a success and an error block after a failure
RECURSIVE IndexBlocksUpTo(_, _, _)
IndexBlocksUpTo(md, ls, rs) ==
    IF Len(md) - 1 >= Len(rs) THEN md
    ELSE IndexBlocksUpTo(
            AppendIndex(md,
               IF rs[Len(md)].success
               THEN IndexEntry(Len(md), ls[Len(md)], PageAt(ls[Len(md)].href))
               ELSE IndexError(Len(md), ls[Len(md)], rs[Len(md)].error)),
            ls, rs)

BuildIndex(date, ls, rs) == IndexBlocksUpTo(<<IndexHeader(date, Len(ls))>>, ls, rs)

\* the index text is built from the links and results of a finished loop
BuildIndexFirst ==
    /\ script = "index" /\ pc = "Apply"
    /\ \E d \in Dates : out' = [first |-> BuildIndex(d, arg.links, arg.results)]
    /\ pc' = "Again"
    /\ UNCHANGED <<arg, script, homepage, browser, fatal, exitCode, crawlerVars,
                   tableVars, inflight>>

\* it is built a second time from the same links and results
BuildIndexAgain ==
    /\ script = "index" /\ pc = "Again"
    /\ \E d \in Dates :
          out' = [first |-> out.first, second |-> BuildIndex(d, arg.links, arg.results)]
    /\ pc' = "Applied"
    /\ UNCHANGED <<arg, script, homepage, browser, fatal, exitCode, crawlerVars,
                   tableVars, inflight>>

\* the state of a function-level specification before the function is applied
PureInit(name) ==
    /\ script = name
    /\ pc = "Apply"
    /\ homepage = [hasWrapper |-> FALSE, anchors |-> <<>>, ids |-> 0]
    /\ step = 0
    /\ subCount = 0
    /\ Fresh
    /\ inflight = {}
    /\ out = NoData

RebuildInit ==
    /\ PureInit("index")
    /\ arg \in UNION { { [links |-> ls, results |-> rs] : rs \in ResultLists(ls) } :
                       ls \in LinkLists }

RebuildNext == BuildIndexFirst \/ BuildIndexAgain

RebuildSpec == RebuildInit /\ [][RebuildNext]_vars

(***************************************************************************)
(* Properties of the crawler                                               *)
(***************************************************************************)
Crawler == script = "crawler"

\* the loop is inside the processing of link i + 1
InLink == pc \in {"Navigate", "Scroll", "Screenshot", "Extract", "WriteMd"}

\* the loop was left normally, or the run has ended
AfterLoop0 == pc \in {"WritingIndex", "WritingResults", "Finally", "Done"}

IsFailure(r) == ~r.success
IsSuccess(r) == r.success

\* C1: a failure while processing one link is caught at that link, recorded
\* as a result with success = false, and the loop goes on: the failure never
\* reaches the outer catch, the link after a failed one is the next to be
\* navigated to, and a run that entered the loop leaves it only after a
\* navigation was issued for every link.
C1_FailureIsolated ==
    Crawler =>
      /\ InLink => fatal = NoError
      /\ \A k \in 1..Len(results) :
            (IsFailure(results[k]) /\ k < Len(links))
               => (Len(gotoLog) > k \/ (pc = "Navigate" /\ i = k))
      /\ (AfterLoop0 /\ gotoLog # <<>>)
            => (Len(gotoLog) = Len(links) /\ Len(results) = Len(links))

\* three links, the second one timing out: success, failure, success
C1_Witness ==
    /\ Crawler /\ pc = "Done" /\ fatal = NoError
    /\ Len(links) = 3 /\ Len(results) = 3
    /\ IsSuccess(results[1])
    /\ IsFailure(results[2])
    /\ results[2].error = "Navigation timeout of 30000 ms exceeded"
    /\ IsSuccess(results[3])

\* C2: the persisted results list (results.json) has exactly one entry per
\* extracted link, whatever the mix of successes and failures; the list that
\* reaches the write has one entry per link and per navigation issued.
C2_ResultCount ==
    Crawler =>
      /\ resultsFile # NoFile
            => (Len(resultsFile) = Len(links) /\ Len(resultsFile) = Len(gotoLog))
      /\ pc \in {"WritingIndex", "WritingResults"} => Len(results) = Len(links)

C2_Witness ==
    /\ Crawler /\ resultsFile # NoFile
    /\ Len(resultsFile) = 3
    /\ \E k \in 1..3 : IsFailure(resultsFile[k])
    /\ \E k \in 1..3 : IsSuccess(resultsFile[k])

\* C3: every recorded result is either a failure with a non-empty error
\* message and no output file, or a success with a non-empty output file
\* name and no error message.
C3_ResultShape ==
    Crawler =>
      \A k \in 1..Len(results) :
         IF results[k].success
         THEN /\ "filename" \in DOMAIN results[k]
              /\ results[k].filename # <<>>
              /\ "error" \notin DOMAIN results[k]
         ELSE /\ "error" \in DOMAIN results[k]
              /\ results[k].error # ""
              /\ "filename" \notin DOMAIN results[k]

C3_Witness ==
    /\ Crawler
    /\ \E k \in 1..Len(results) : IsFailure(results[k]) /\ results[k].error # ""
    /\ \E k \in 1..Len(results) : IsSuccess(results[k]) /\ Len(results[k].filename) > 3

\* C4: each link is attempted exactly once: every iteration issues one
\* navigation (the navigations issued are those of the links recorded, plus
\* the one in progress), never more than there are links, and the run
\* completes (Done without a fatal error) only after every link was attempted.
C4_AttemptedOnce ==
    Crawler =>
      /\ Len(gotoLog) <= Len(links)
      /\ Len(gotoLog) = Len(results) + (IF InLink /\ pc # "Navigate" THEN 1 ELSE 0)
      /\ InLink => i = Len(results)
      /\ (pc = "Done" /\ fatal = NoError /\ links # <<>>) => Len(gotoLog) = Len(links)

C4_Witness ==
    /\ Crawler /\ pc = "Done" /\ fatal = NoError
    /\ Len(links) = 3 /\ Len(gotoLog) = 3
    /\ IsFailure(results[1]) /\ IsFailure(results[2])

\* C5: links are visited in the order the extraction returned them and
\* results are appended in that order: navigation k goes to link k, and
\* result k is the result of link k.
C5_VisitOrder ==
    Crawler =>
      /\ \A k \in 1..Len(gotoLog) : k <= Len(links) /\ gotoLog[k] = links[k].href
      /\ \A k \in 1..Len(results) :
            /\ k <= Len(links)
            /\ results[k].link = links[k].text
            /\ results[k].url = IF results[k].success
                                THEN PageAt(links[k].href).url
                                ELSE links[k].href

C5_Witness ==
    /\ Crawler /\ pc = "Done"
    /\ Len(results) = 3
    /\ links[1].text # links[2].text
    /\ links[2].href # links[3].href
    /\ IsFailure(results[1]) /\ IsSuccess(results[2])

\* the blocks of an index text after its header
IndexBlocks(md) == Tail(md)

\* C6: the entries of the written index (INDEX.md) are in the order the
\* links were discovered, failed links in their original positions: block k
\* is the block of link k, an error block exactly when result k is a failure.
C6_IndexOrder ==
    (Crawler /\ indexFile # NoFile) =>
      /\ indexFile[1].kind = "header"
      /\ Len(IndexBlocks(indexFile)) = Len(links)
      /\ \A k \in 1..Len(IndexBlocks(indexFile)) :
            /\ IndexBlocks(indexFile)[k].num = k
            /\ IndexBlocks(indexFile)[k].text = links[k].text
            /\ (IndexBlocks(indexFile)[k].kind = "error") <=> IsFailure(results[k])

C6_Witness ==
    /\ Crawler /\ indexFile # NoFile
    /\ Len(indexFile) = 4
    /\ indexFile[2].kind = "error"
    /\ indexFile[3].kind = "entry"
    /\ indexFile[4].kind = "error"

\* the run failed during setup: launch, homepage load or missing container
SetupFailure ==
    \/ fatal \in LaunchErrors
    \/ fatal \in NavigationErrors
    \/ "error" \in DOMAIN mainWrapperData

\* C7: a setup-level error (browser launch, homepage load, missing
\* container) aborts the run: the error is logged, no link is visited and no
\* per-link artifact, index or results list is produced.
C7_SetupAborts ==
    (Crawler /\ SetupFailure) =>
      /\ pc \in {"ListSections", "Finally", "Done"}
      /\ gotoLog = <<>>
      /\ results = <<>>
      /\ files = {}
      /\ indexFile = NoFile
      /\ resultsFile = NoFile
      /\ fatal \in LaunchErrors => browser = "undefined"

C7_Witness ==
    /\ Crawler /\ pc = "Done"
    /\ fatal = "Navigation timeout of 30000 ms exceeded"
    /\ browser = "closed"

\* C8: when #main-wrapper is missing the extraction does not throw: it
\* returns the not-found signal and no link, the caller lists the ids of the
\* page (the first SectionsLimit of them) and the run ends without visiting
\* anything.
C8_ContainerMissing ==
    (Crawler /\ ~homepage.hasWrapper) =>
      /\ pc = "ListSections" =>
            (fatal = NoError /\ "error" \in DOMAIN mainWrapperData)
      /\ (pc \in {"Finally", "Done"} /\ fatal = NoError) =>
            /\ "error" \in DOMAIN mainWrapperData
            /\ Len(sections) = (IF homepage.ids < SectionsLimit
                                THEN homepage.ids ELSE SectionsLimit)
      /\ links = <<>>
      /\ gotoLog = <<>>
      /\ ~InLink

C8_Witness ==
    /\ Crawler /\ pc = "Done" /\ fatal = NoError
    /\ ~homepage.hasWrapper
    /\ mainWrapperData = [error |-> "Could not find #main-wrapper element"]
    /\ homepage.ids > SectionsLimit
    /\ Len(sections) = SectionsLimit

\* C9: in every script, once the run has ended (normally, by an early
\* return, or after an error reached the outer catch) a browser that was
\* launched is closed; the rejection handler of screenshot-enhanced.js runs
\* only after the close.
C9_BrowserClosed ==
    pc \in {"Done", "Rejected", "Exited"} => browser \in {"undefined", "closed"}

C9_Witness ==
    /\ script = "enhanced" /\ pc = "Exited"
    /\ fatal # NoError
    /\ browser = "closed"

\* number of positions of s whose element satisfies the test
CountLinks(s, h) == Cardinality({ k \in DOMAIN s : s[k].href = h })
CountAnchors(s, h) ==
    Cardinality({ k \in DOMAIN s : KeepLink(MapAnchor(s[k])) /\ s[k].href = h })

\* C10 as stated: no two extracted links have the same target URL.
C10_Original ==
    Crawler =>
      \A j, k \in 1..Len(links) : links[j].href = links[k].href => j = k

\* C10 (amended): the extraction does not deduplicate by href: every anchor
\* with non-empty trimmed text and non-empty href yields a link, so a target
\* URL occurs among the links as often as among the qualifying anchors.
C10_AllKept ==
    (Crawler /\ "links" \in DOMAIN mainWrapperData) =>
      /\ links = mainWrapperData.links
      /\ \A a \in HomeAnchors :
            CountLinks(links, a.href) = CountAnchors(homepage.anchors, a.href)

C10_Witness ==
    /\ Crawler /\ "links" \in DOMAIN mainWrapperData
    /\ \E j, k \in 1..Len(links) : j < k /\ links[j].href = links[k].href


\* the positions of the anchors that have a non-empty trimmed text and a
\* non-empty href
Qualifying(anchors) ==
    { k \in DOMAIN anchors : Trim(anchors[k].text) # <<>> /\ anchors[k].href # "" }

\* the j-th smallest element of a set of positions
Kth(Q, j) == CHOOSE k \in Q : Cardinality({ m \in Q : m <= k }) = j

\* C11: the extraction returns, in document order, exactly the anchors of
\* the container whose trimmed text and href are both non-empty: link j is
\* the j-th such anchor, and there are as many links as such anchors.
C11_ExactFilter ==
    (Crawler /\ "links" \in DOMAIN mainWrapperData) =>
      /\ Len(links) = Cardinality(Qualifying(homepage.anchors))
      /\ \A j \in 1..Len(links) :
            /\ links[j].text = Trim(homepage.anchors[Kth(Qualifying(homepage.anchors), j)].text)
            /\ links[j].href = homepage.anchors[Kth(Qualifying(homepage.anchors), j)].href

\* a blank-text anchor, a kept anchor, an empty-href anchor: one link
C11_Witness ==
    /\ Crawler /\ "links" \in DOMAIN mainWrapperData
    /\ Len(homepage.anchors) = 3
    /\ Trim(homepage.anchors[1].text) = <<>>
    /\ homepage.anchors[3].href = ""
    /\ Len(links) = 1
    /\ links[1].text = <<"A", "b">>


BlockOfResult(block, k, r) ==
    /\ block.num = k
    /\ block.text = r.link
    /\ block.url = r.url
    /\ IF r.success
       THEN block.kind = "entry" /\ block.file = r.filename
       ELSE block.kind = "error" /\ block.error = r.error

Successes(rs) == { k \in 1..Len(rs) : rs[k].success }

\* the artifacts of a kind on disk
FilesIn(dir) == { f \in files : f.dir = dir }

\* C13: at the end of a completed run there is exactly one content document
\* and one image for each link whose result is a success and none for a
\* link whose result is a failure: both numbers equal the number of
\* success results.
C13_ArtifactsMatchSuccesses ==
    (Crawler /\ pc = "Done" /\ fatal = NoError /\ resultsFile # NoFile) =>
      /\ Cardinality(FilesIn("out")) = Cardinality(Successes(results))
      /\ Cardinality(FilesIn("images")) = Cardinality(Successes(results))
      /\ \A k \in 1..Len(results) :
            /\ [dir |-> "out", name |-> MdFilename(k, links[k].text)] \in files
                  <=> results[k].success
            /\ [dir |-> "images", name |-> ScreenshotFilename(k, links[k].text)] \in files
                  <=> results[k].success


\* the state of the crawl loop's state machine a position belongs to:
\* 0 Idle, 1 FetchingIndex, 2 ExtractingLinks, 3 VisitingLink,
\* 4 WritingIndex, 5 Done
Phase(p) ==
    CASE p \in {"Idle", "NewPage", "Configure"}      -> 0
      [] p = "FetchingIndex"                         -> 1
      [] p \in {"ExtractingLinks", "ListSections"}   -> 2
      [] p \in {"Navigate", "Scroll", "Screenshot", "Extract", "WriteMd"} -> 3
      [] p \in {"WritingIndex", "WritingResults"}    -> 4
      [] OTHER                                       -> 5

\* C14 as stated: every run whose setup succeeded, the one with an empty
\* link list included, has written the index and the results list when it
\* ends.
C14_Original ==
    (Crawler /\ pc = "Done" /\ fatal = NoError /\ "links" \in DOMAIN mainWrapperData)
       => (indexFile # NoFile /\ resultsFile # NoFile)

\* C14 (amended): the run moves through Idle, FetchingIndex, ExtractingLinks,
\* VisitingLink, WritingIndex, Done in that order, leaving out states only to
\* end the run; the index and the results list are each written at most
\* once, after a navigation was issued for every link, the index first; a run
\* over a non-empty link list that completes has written both, and a run
\* over an empty link list ends after ExtractingLinks and writes neither.
C14_PhaseOrder ==
    [][ Crawler =>
          /\ Phase(pc') >= Phase(pc)
          /\ Phase(pc') > Phase(pc) + 1 => pc' = "Finally"
          /\ pc = "WritingIndex" => indexFile = NoFile
          /\ pc = "WritingResults" => resultsFile = NoFile
          /\ indexFile' # indexFile =>
                /\ pc = "WritingIndex" /\ pc' = "WritingResults"
                /\ links # <<>> /\ Len(gotoLog) = Len(links)
                /\ indexFile' = indexMd
          /\ resultsFile' # resultsFile =>
                /\ pc = "WritingResults" /\ pc' = "Finally"
                /\ indexFile # NoFile
                /\ resultsFile' = results
          /\ (pc' = "Done" /\ fatal' = NoError /\ links' # <<>>)
                => (indexFile' # NoFile /\ resultsFile' # NoFile)
          /\ (pc' = "Done" /\ links' = <<>>)
                => (indexFile' = NoFile /\ resultsFile' = NoFile)
      ]_vars

C14_Witness ==
    /\ Crawler /\ pc = "Done" /\ fatal = NoError
    /\ Len(links) = 3 /\ Len(gotoLog) = 3
    /\ indexFile # NoFile /\ resultsFile # NoFile


(***************************************************************************)
(* The content extraction on its own: a document drawn from small bodies,  *)
(* and the content page.evaluate applied to it                             *)
(***************************************************************************)
MaxBody == 2

\* top-level elements a body is built from
DomElements ==
    { El("main", "", "", "", <<P("idea")>>),
      El("main", "", "", "", <<El("script", "", "", "track()", <<>>), P("idea")>>),
      El("article", "", "", "", <<P("teaser")>>),
      El("div", "content", "", "", <<El("nav", "", "", "menu", <<>>), P("text")>>),
      El("div", "", "content", "", <<>>),
      El("div", "", "", "", <<El("section", "main", "", "inner", <<>>)>>),
      El("nav", "", "", "menu", <<>>),
      El("style", "", "", "p{}", <<>>),
      P("plain") }

Documents ==
    { [title |-> "T", url |-> "/p", metaDescription |-> "", body |-> b] :
        b \in SeqsUpTo(DomElements, MaxBody) }

ContentInit == PureInit("content") /\ arg \in Documents

\* const pageData = await page.evaluate(() => {...})
EvaluatePageData ==
    /\ script = "content" /\ pc = "Apply"
    /\ out' = EvaluateContent(arg)
    /\ pc' = "Applied"
    /\ UNCHANGED <<script, homepage, browser, fatal, exitCode, mainWrapperData, links,
                   sections, i, pageData, indexMd, results, gotoLog, files, htmlFile,
                   indexFile, resultsFile, step, subCount, subVisited, inflight, arg>>

ContentNext == EvaluatePageData

ContentSpec == ContentInit /\ [][ContentNext]_vars

Extracted == script = "content" /\ pc = "Applied"

\* the element the candidate order names: that of the first candidate, taken
\* in the listed order, that matches anything
RECURSIVE ByPrecedence(_, _)
ByPrecedence(body, k) ==
    IF k > Len(ContentSelectors) THEN NoNode
    ELSE IF QuerySelector(body, ContentSelectors[k]) # NoNode
         THEN QuerySelector(body, ContentSelectors[k])
         ELSE ByPrecedence(body, k + 1)

\* C15: the content region of a visited page is the element matched by the
\* first candidate selector, in candidate order, that matches anything on the
\* page, whatever the order of the elements in the document; the stripped
\* body when no candidate matches.
C15_SelectorPrecedence ==
    Extracted =>
        IF ByPrecedence(arg.body, 1) = NoNode
        THEN out.pageData.mainContent = RemoveAll(arg.body, StripSelector)
        ELSE InnerHTML(ByPrecedence(arg.body, 1)) # <<>>
                => out.pageData.mainContent = InnerHTML(ByPrecedence(arg.body, 1))

\* some node of the fragment, at any depth, is one of the named tags
RECURSIVE HasTag(_, _)
HasTag(ns, tags) ==
    ns # <<>> /\ (\/ Head(ns).tag \in tags
                  \/ HasTag(Head(ns).kids, tags)
                  \/ HasTag(Tail(ns), tags))

NonContentTags == {"script", "style", "nav", "header", "footer"}

\* C16: the HTML handed to the Markdown converter for a visited page holds no
\* script, style, nav, header or footer element, whether the region is a
\* matched container or the full-body fallback.
C16_NoNonContent ==
    Extracted => ~HasTag(out.pageData.mainContent, NonContentTags)


MaxTextLen == 3

\* characters of link texts: letters of both cases, a digit, white space,
\* a dash, a dot, a path separator and a letter outside ASCII
NameChars == {"a", "Z", "7", " ", "-", ".", "/", "é"}

\* texts around SafeFilenameMax characters, before and after the collapse
LongUnits == { <<"a","B">>, <<"7","-">> }
LongReps == {24, 25, 26}
BlankUnit == <<"x"," "," ","Y">>
BlankReps == {16, 17}
LongTexts ==
    { Repeat(u, n) : u \in LongUnits, n \in LongReps }
       \cup { Repeat(BlankUnit, n) : n \in BlankReps }

\* link.text is trimmed and not empty (the filter of the extraction)
LinkTexts ==
    { t \in SeqsUpTo(NameChars, MaxTextLen) \cup LongTexts : t # <<>> /\ Trim(t) = t }

\* positions with one, two and three digits
LinkNums == {1, 9, 10, 99, 100}

NamingInit ==
    /\ PureInit("naming")
    /\ arg \in [text : LinkTexts, linkNum : LinkNums]

\* safeFilename, screenshotPath and mdPath of one iteration
NameArtifacts ==
    /\ script = "naming" /\ pc = "Apply"
    /\ out' = [safeFilename |-> SafeFilename(arg.text),
               screenshot |-> [dir |-> "images",
                               name |-> ScreenshotFilename(arg.linkNum, arg.text)],
               md |-> [dir |-> "out", name |-> MdFilename(arg.linkNum, arg.text)]]
    /\ pc' = "Applied"
    /\ UNCHANGED <<script, homepage, browser, fatal, exitCode, mainWrapperData, links,
                   sections, i, pageData, indexMd, results, gotoLog, files, htmlFile,
                   indexFile, resultsFile, step, subCount, subVisited, inflight, arg>>

NamingNext == NameArtifacts

NamingSpec == NamingInit /\ [][NamingNext]_vars

Named == script = "naming" /\ pc = "Applied"

\* a character of the sanitized text: an ASCII letter lowercased, a digit
\* as it is, anything else a dash
Norm(c) == IF IsAlnum(c) THEN ToLowerCase(c) ELSE "-"

\* positions that survive the collapse: every letter and digit, and a dash
\* only when it is the first of its run
Kept(text) ==
    { k \in DOMAIN text :
        Norm(text[k]) = "-" => (k = 1 \/ Norm(text[k - 1]) # "-") }

Min(a, b) == IF a < b THEN a ELSE b

\* the number a sequence of decimal digits denotes
RECURSIVE DecValue(_)
DecValue(d) ==
    IF d = <<>> THEN 0
    ELSE 10 * DecValue(SubSeq(d, 1, Len(d) - 1))
           + (CHOOSE v \in 0..9 : DigitChars[v + 1] = d[Len(d)])

\* the part of a file name before the dash that precedes the sanitized text
NumberPart(name, s, ext) == SubSeq(name, 1, Len(name) - Len(s) - Len(ext) - 1)

\* C18: for the link at position i, the content document is named
\* <i padded with zeros to at least two digits>-<s>.md and the image
\* images/<same stem>.png, where s is the link text with every character
\* that is not an ASCII letter or digit replaced by a dash, runs of dashes
\* collapsed to one, lowercased, and cut to SafeFilenameMax characters.
C18_ArtifactNames ==
    Named =>
      /\ Len(out.safeFilename) = Min(SafeFilenameMax, Cardinality(Kept(arg.text)))
      /\ \A j \in 1..Len(out.safeFilename) :
            out.safeFilename[j] = Norm(arg.text[Kth(Kept(arg.text), j)])
      /\ out.md.name =
            NumberPart(out.md.name, out.safeFilename, <<".","m","d">>)
               \o <<"-">> \o out.safeFilename \o <<".","m","d">>
      /\ DecValue(NumberPart(out.md.name, out.safeFilename, <<".","m","d">>)) = arg.linkNum
      /\ Len(NumberPart(out.md.name, out.safeFilename, <<".","m","d">>))
            = (IF arg.linkNum < 100 THEN 2 ELSE 3)
      /\ out.screenshot.dir = "images"
      /\ out.screenshot.name =
            SubSeq(out.md.name, 1, Len(out.md.name) - 3) \o <<".","p","n","g">>

\* a text of 68 characters whose runs of blanks collapse, cut at 50, as the
\* hundredth link
C18_Witness ==
    /\ Named
    /\ arg.linkNum = 100
    /\ Len(arg.text) = 68
    /\ Len(out.safeFilename) = SafeFilenameMax
    /\ SubSeq(out.md.name, 1, 8) = <<"1","0","0","-","x","-","y","x">>
    /\ out.safeFilename[50] = "-"


\* C19: the exit status of the crawler reflects setup-level failures only: a
\* run in which links failed ends with status 0, and a run that failed
\* while launching the browser or loading the homepage ends with a status
\* other than 0.
C19_ExitStatus ==
    (Crawler /\ pc = "Done") =>
      /\ (fatal = NoError /\ \E k \in 1..Len(results) : IsFailure(results[k]))
            => exitCode = 0
      /\ (fatal \in LaunchErrors \cup NavigationErrors) => exitCode # 0


\* operations on the shared page session
PageOps == {"goto", "evaluate", "screenshot"}

\* C20: browser work is strictly sequential: at most one call is in flight
\* at any point of a run, so never two operations on the page session, and
\* the navigation of a link is in flight only when every earlier link has
\* its result and its index block and nothing else is pending.
C20_Sequential ==
    /\ Cardinality(inflight) <= 1
    /\ Cardinality(inflight \cap PageOps) <= 1
    /\ (Crawler /\ pc = "Navigate") =>
          /\ inflight = {"goto"}
          /\ Len(results) = i
          /\ Len(indexMd) = i + 1
          /\ Len(gotoLog) = i
    /\ (Crawler /\ InLink) => inflight \subseteq PageOps

\* the navigation of the third link in flight after a failure and a success
C20_Witness ==
    /\ Crawler /\ pc = "Navigate" /\ i = 2
    /\ inflight = {"goto"}
    /\ IsFailure(results[1]) /\ IsSuccess(results[2])


(***************************************************************************)
(* The crawler alone, every awaited call eventually settling               *)
(***************************************************************************)
MaxLoopLinks == 2

\* homepages for the runs of the crawler alone: up to MaxLoopLinks anchors
\* that the extraction keeps, or no container at all
LoopPages ==
    { [hasWrapper |-> TRUE, anchors |-> a, ids |-> 1] :
        a \in SeqsUpTo({ h \in HomeAnchors : KeepLink(MapAnchor(h)) }, MaxLoopLinks) }
    \cup { [hasWrapper |-> FALSE, anchors |-> <<>>, ids |-> 2] }

CrawlerInit ==
    /\ script = "crawler"
    /\ homepage \in LoopPages
    /\ pc = "Idle"
    /\ step = 0
    /\ subCount = 0
    /\ Fresh
    /\ inflight = Pending(script, pc, step, browser)
    /\ arg = NoData
    /\ out = NoData

CrawlerNext ==
    \/ Launch
    \/ NewPage
    \/ Configure
    \/ FetchIndex
    \/ ExtractingLinks
    \/ ListSections
    \/ Navigate
    \/ Scroll
    \/ Screenshot
    \/ Extract
    \/ WriteMd
    \/ WritingIndex
    \/ WritingResults
    \/ Finally

\* the position of the run: every step of the crawler changes it
position == <<pc, i>>

\* an awaited call returns or throws, and the statement after it then runs
CrawlerFairSpec == CrawlerInit /\ [][CrawlerNext]_vars /\ WF_position(CrawlerNext)

\* setup succeeded and the loop is entered with at least one link
LoopEntered == Crawler /\ pc = "Navigate" /\ i = 0

\* C21 as stated: a run that entered the loop always eventually writes the
\* index and the results list.
C21_Original ==
    LoopEntered ~> (indexFile # NoFile /\ resultsFile # NoFile)

\* C21 (amended): a run that entered the loop always eventually leaves it
\* with one result per link and reaches the write of the index, whatever
\* links failed or timed out; it then ends with the index and the results
\* list written, unless one of the two writeFileSync calls threw.
C21_LoopEnds ==
    /\ LoopEntered ~> (pc = "WritingIndex" /\ Len(results) = Len(links))
    /\ LoopEntered ~> (/\ pc = "Done"
                       /\ Len(results) = Len(links)
                       /\ \/ indexFile # NoFile /\ resultsFile # NoFile
                          \/ fatal \in WriteErrors)

\* a finished run with a timed-out link and both documents written
C21_Witness ==
    /\ Crawler /\ pc = "Done"
    /\ indexFile # NoFile /\ resultsFile # NoFile
    /\ Len(results) = 2
    /\ IsFailure(results[1])
    /\ results[1].error = "Navigation timeout of 30000 ms exceeded"
    /\ IsSuccess(results[2])


(***************************************************************************)
(* The in-page scroll step on its own: the interval timer of the crawler   *)
(* and of autoScroll (screenshot-enhanced.js) on a page of a given height  *)
(* that may grow after each scroll                                         *)
(***************************************************************************)
CrawlerScrollDistance == 200
AutoScrollDistance == 100
ViewportHeight == 1080

MaxTicks == 14

\* document.body.scrollHeight when the step starts
PageHeights == {1, 150, 200, 201, 400, 1000, 1300}

\* what a scroll adds to the height of the page (lazily loaded content)
Growths == {0, 50, 100, 200, 300}

\* const distance
Distance(who) == IF who = "crawler" THEN CrawlerScrollDistance ELSE AutoScrollDistance

ScrollInit ==
    /\ PureInit("scroll")
    /\ arg \in [who : {"crawler", "enhanced"}, height : PageHeights, growth : Growths]

\* window.scrollBy(0, distance): the offset is kept inside the page
ScrollBy(y, distance, height) ==
    IF y + distance <= height - ViewportHeight THEN y + distance
    ELSE IF height > ViewportHeight THEN height - ViewportHeight
    ELSE 0

\* variant: totalHeight > scrollHeight
ScrollDoneStrict(totalHeight, scrollHeight) == totalHeight > scrollHeight

\* if (totalHeight >= scrollHeight)
ScrollDone(totalHeight, scrollHeight) == totalHeight >= scrollHeight

\* the promise executor: let totalHeight = 0; const timer = setInterval(..)
StartScroll ==
    /\ script = "scroll" /\ pc = "Apply"
    /\ out' = [totalHeight |-> 0, height |-> arg.height, scrollHeight |-> 0,
               scrollY |-> 0, ticks |-> 0, timer |-> "set", resolved |-> FALSE]
    /\ pc' = "Ticking"
    /\ UNCHANGED <<script, homepage, browser, fatal, exitCode, mainWrapperData, links,
                   sections, i, pageData, indexMd, results, gotoLog, files, htmlFile,
                   indexFile, resultsFile, step, subCount, subVisited, inflight, arg>>

\* one run of the interval callback, then the page grows
TimerTick ==
    /\ script = "scroll" /\ pc = "Ticking"
    /\ out.timer = "set"
    /\ out.ticks < MaxTicks
    /\ IF ScrollDone(out.totalHeight + Distance(arg.who), out.height)
       THEN /\ out' = [totalHeight |-> out.totalHeight + Distance(arg.who),
                       height |-> out.height + arg.growth,
                       scrollHeight |-> out.height,
                       scrollY |-> IF arg.who = "crawler" THEN 0
                                   ELSE ScrollBy(out.scrollY, Distance(arg.who), out.height),
                       ticks |-> out.ticks + 1,
                       timer |-> "cleared",
                       resolved |-> TRUE]
            /\ pc' = "Applied"
       ELSE /\ out' = [totalHeight |-> out.totalHeight + Distance(arg.who),
                       height |-> out.height + arg.growth,
                       scrollHeight |-> out.height,
                       scrollY |-> ScrollBy(out.scrollY, Distance(arg.who), out.height),
                       ticks |-> out.ticks + 1,
                       timer |-> "set",
                       resolved |-> FALSE]
            /\ pc' = "Ticking"
    /\ UNCHANGED <<script, homepage, browser, fatal, exitCode, mainWrapperData, links,
                   sections, i, pageData, indexMd, results, gotoLog, files, htmlFile,
                   indexFile, resultsFile, step, subCount, subVisited, inflight, arg>>

ScrollNext == StartScroll \/ TimerTick

ScrollSpec == ScrollInit /\ [][ScrollNext]_vars

Scrolling == script = "scroll" /\ pc \in {"Ticking", "Applied"}

CeilDiv(a, b) == (a + b - 1) \div b

\* C22 as stated: on a page whose height stays at H the step resolves after
\* ceil(H/distance) ticks, and on a page that grows by at least the distance
\* on every tick it never resolves.
C22_Original ==
    Scrolling =>
      /\ arg.growth = 0 =>
            /\ out.ticks <= CeilDiv(arg.height, Distance(arg.who))
            /\ out.resolved <=> out.ticks = CeilDiv(arg.height, Distance(arg.who))
      /\ arg.growth >= Distance(arg.who) => ~out.resolved

\* C22 (amended): the step adds the distance on every tick and stops
\* (clears the timer and resolves) at the first tick where the accumulated
\* distance is at least the height read at that tick, and the timer fires no
\* more; on a page whose height stays at H that is tick ceil(H/distance);
\* on a page that grows by at least the distance after every tick it never
\* resolves when the height at the first tick exceeds the distance, and
\* resolves at the first tick otherwise.
C22_ScrollStops ==
    Scrolling =>
      /\ out.totalHeight = out.ticks * Distance(arg.who)
      /\ out.resolved <=> (out.ticks > 0 /\ out.totalHeight >= out.scrollHeight)
      /\ out.resolved <=> out.timer = "cleared"
      /\ out.resolved => ~ENABLED TimerTick
      /\ arg.growth = 0 =>
            /\ out.ticks <= CeilDiv(arg.height, Distance(arg.who))
            /\ out.resolved <=> out.ticks = CeilDiv(arg.height, Distance(arg.who))
      /\ arg.growth >= Distance(arg.who) =>
            IF arg.height > Distance(arg.who)
            THEN ~out.resolved
            ELSE out.ticks > 0 => (out.resolved /\ out.ticks = 1)

\* autoScroll resolved at tick 13 on a page of constant height 1300
C22_Witness ==
    /\ Scrolling /\ arg.who = "enhanced"
    /\ arg.height = 1300 /\ arg.growth = 0
    /\ out.resolved /\ out.ticks = 13
    /\ out.scrollY = 220


(***************************************************************************)
(* The heading outline on its own: a document with headings, the headings  *)
(* the content evaluate returns and the 'Page Structure' part rendered     *)
(***************************************************************************)
MaxHeadBody == 3

\* top-level elements of the bodies: headings with plain text, with blanks
\* around the text, with a line break between two child elements, a
\* heading inside a header, and a paragraph
HeadElements ==
    { El("h1", "", "", <<"A">>, <<>>),
      El("h2", "", "", <<" ", "B", " ">>, <<>>),
      El("h3", "", "", <<>>, << El("a", "", "", <<"C">>, <<>>),
                                El("#text", "", "", <<"\n">>, <<>>),
                                El("span", "", "", <<"d">>, <<>>) >>),
      El("h6", "", "", <<"F">>, <<>>),
      El("header", "", "", <<>>, << El("h2", "", "", <<"N">>, <<>>) >>),
      El("p", "", "", <<"t">>, <<>>) }

HeadingDocuments == SeqsUpTo(HeadElements, MaxHeadBody)

HeadingInit == PureInit("headings") /\ arg \in HeadingDocuments

\* the headings of pageData and the outline written to the content document
RenderPageStructure ==
    /\ script = "headings" /\ pc = "Apply"
    /\ out' = PageStructure(Headings(arg))
    /\ pc' = "Applied"
    /\ UNCHANGED <<script, homepage, browser, fatal, exitCode, mainWrapperData, links,
                   sections, i, pageData, indexMd, results, gotoLog, files, htmlFile,
                   indexFile, resultsFile, step, subCount, subVisited, inflight, arg>>

HeadingNext == RenderPageStructure

HeadingSpec == HeadingInit /\ [][HeadingNext]_vars

Outlined == script = "headings" /\ pc = "Applied"

\* every node of a body, in document order
RECURSIVE Flatten(_)
Flatten(ns) ==
    IF ns = <<>> THEN <<>>
    ELSE <<Head(ns)>> \o Flatten(Head(ns).kids) \o Flatten(Tail(ns))

HeadingTags == <<"h1", "h2", "h3", "h4", "h5", "h6">>

\* positions of the heading elements among the nodes of a body
HeadingPositions(body) ==
    { k \in DOMAIN Flatten(body) : \E v \in 1..6 : Flatten(body)[k].tag = HeadingTags[v] }

LevelOf(n) == CHOOSE v \in 1..6 : n.tag = HeadingTags[v]

\* the lines of a text, each ended by a line break
RECURSIVE Lines(_, _)
Lines(s, line) ==
    IF s = <<>> THEN (IF line = <<>> THEN <<>> ELSE <<line>>)
    ELSE IF Head(s) = "\n" THEN <<line>> \o Lines(Tail(s), <<>>)
    ELSE Lines(Tail(s), Append(line, Head(s)))

\* C23: the outline lists every heading (h1 to h6) of the page in document
\* order, one line per heading, the line of a heading of level l being
\* 2*(l-1) blanks, "- " and the heading's text; the section is omitted when
\* the page has no heading.
C23_Outline ==
    Outlined =>
      /\ out.section <=> HeadingPositions(arg) # {}
      /\ Len(Lines(out.list, <<>>)) = Cardinality(HeadingPositions(arg))
      /\ \A j \in 1..Cardinality(HeadingPositions(arg)) :
            Lines(out.list, <<>>)[j] =
               [k \in 1..(2 * (LevelOf(Flatten(arg)[Kth(HeadingPositions(arg), j)]) - 1)) |-> " "]
                  \o <<"-", " ">>
                  \o Trim(TextContent(Flatten(arg)[Kth(HeadingPositions(arg), j)]))


(***************************************************************************)
(* The two evaluates that work on a clone, with the page they leave behind *)
(***************************************************************************)
CloneInit ==
    \/ PureInit("content") /\ arg \in Documents
    \/ PureInit("wrapper") /\ arg \in { p \in HomePages : p.hasWrapper }

\* const mainWrapperData = await page.evaluate(..), the container being there
EvaluateWrapperData ==
    /\ script = "wrapper" /\ pc = "Apply"
    /\ out' = EvaluateWrapper(arg)
    /\ pc' = "Applied"
    /\ UNCHANGED <<script, homepage, browser, fatal, exitCode, mainWrapperData, links,
                   sections, i, pageData, indexMd, results, gotoLog, files, htmlFile,
                   indexFile, resultsFile, step, subCount, subVisited, inflight, arg>>

CloneNext == EvaluatePageData \/ EvaluateWrapperData

CloneSpec == CloneInit /\ [][CloneNext]_vars

\* C24: the content extraction removes the non-content elements from a
\* clone of the body: the document after the extraction is the document
\* before it, while the body it returns is the stripped one; and the class
\* attributes are removed on a clone of the container: the homepage after
\* the first evaluate is the homepage before it, while the HTML it returns
\* has no class attribute.
C24_LiveDomUnchanged ==
    /\ (script = "content" /\ pc = "Applied") =>
          /\ out.document = arg
          /\ out.pageData.bodyHTML = RemoveAll(arg.body, StripSelector)
          /\ ~HasTag(out.pageData.bodyHTML, NonContentTags)
    /\ (script = "wrapper" /\ pc = "Applied") =>
          /\ out.page = arg
          /\ Len(out.data.mainWrapperHTML) = Len(arg.anchors)
          /\ \A k \in DOMAIN out.data.mainWrapperHTML :
                /\ out.data.mainWrapperHTML[k].cls = ""
                /\ out.data.mainWrapperHTML[k].href = arg.anchors[k].href

\* a body with a nav element: removed from the returned body, still on the page
C24_Witness ==
    /\ script = "content" /\ pc = "Applied"
    /\ Len(arg.body) = 2
    /\ arg.body[1].tag = "nav"
    /\ Len(out.pageData.bodyHTML) = 1
    /\ Len(out.document.body) = 2
    /\ out.document.body[1].tag = "nav"


Enhanced == script = "enhanced"

DeepDive == script \in {"practical", "deep"}

\* C26: in the two deep-dive scripts the subpage loop visits at most
\* SubpageLimit subpages, in list order; a step of the loop body that throws
\* is caught inside the loop (no error reaches the outer catch), the loop
\* goes on with the next subpage or, after the last one, with the step that
\* follows the loop; a run that ends without an outer error visited every
\* subpage it was to visit.
C26_SubpageLoop ==
    [][DeepDive =>
         /\ Len(subVisited') <= SubpageLimit
         /\ \A k \in DOMAIN subVisited' : subVisited'[k] = k
         /\ (pc = "Step" /\ Steps(script)[step].loop /\ StepFail) =>
               /\ fatal' = NoError
               /\ i' = i + 1
               /\ pc' = "Step"
               /\ step' = IF i + 1 < subCount
                          THEN LoopStart(Steps(script), step)
                          ELSE AfterLoop(Steps(script), step)
               /\ ~Steps(script)[AfterLoop(Steps(script), step)].loop
         /\ (pc' = "Done" /\ fatal' = NoError) => Len(subVisited') = subCount']_vars

\* the practical script after its third subpage, at the step after the loop
C26_Witness ==
    /\ script = "practical" /\ pc = "Step"
    /\ subCount = SubpageLimit
    /\ subVisited = <<1, 2, 3>>
    /\ i = 3
    /\ step = AfterLoop(PracticalSteps, 15)
    /\ Steps(script)[step].line = 282
    /\ fatal = NoError


(***************************************************************************)
(* The names of the artifacts of two links of one run                      *)
(***************************************************************************)
MaxPairLen == 2

\* texts that begin with digits or dashes, as the number part of a name does
PairChars == {"a", "0", "1", "-", " "}

PairTexts == { t \in SeqsUpTo(PairChars, MaxPairLen) : t # <<>> /\ Trim(t) = t }

\* two positions of the same run, with one, two and three digits
PairNums == {1, 9, 10, 11, 100, 101}

PairInit ==
    /\ PureInit("pair")
    /\ arg \in { a \in [text1 : PairTexts, linkNum1 : PairNums,
                        text2 : PairTexts, linkNum2 : PairNums] :
                 a.linkNum1 < a.linkNum2 }

\* screenshotFilename and mdFilename of the two iterations
NamePair ==
    /\ script = "pair" /\ pc = "Apply"
    /\ out' = [md1 |-> MdFilename(arg.linkNum1, arg.text1),
               png1 |-> ScreenshotFilename(arg.linkNum1, arg.text1),
               md2 |-> MdFilename(arg.linkNum2, arg.text2),
               png2 |-> ScreenshotFilename(arg.linkNum2, arg.text2)]
    /\ pc' = "Applied"
    /\ UNCHANGED <<script, homepage, browser, fatal, exitCode, mainWrapperData, links,
                   sections, i, pageData, indexMd, results, gotoLog, files, htmlFile,
                   indexFile, resultsFile, step, subCount, subVisited, inflight, arg>>

PairNext == NamePair

PairSpec == PairInit /\ [][PairNext]_vars

\* C27: the content documents of two links at different positions of a run
\* have different names, and so have their images, whatever the two link
\* texts are (equal, or equal once sanitized, included).
C27_DistinctNames ==
    (script = "pair" /\ pc = "Applied") =>
      /\ out.md1 # out.md2
      /\ out.png1 # out.png2

\* the same text at positions 10 and 100
C27_Witness ==
    /\ script = "pair" /\ pc = "Applied"
    /\ arg.text1 = <<"0", "-">> /\ arg.text2 = <<"0", "-">>
    /\ arg.linkNum1 = 10 /\ arg.linkNum2 = 100
    /\ out.md1 = <<"1","0","-","0","-",".","m","d">>
    /\ out.md2 = <<"1","0","0","-","0","-",".","m","d">>


\* the characters a sanitized text may hold
SafeChars == Range(LowerChars) \cup Range(DigitChars) \cup {"-"}

\* C28: for every link text the sanitized part of the file names holds only
\* a-z, 0-9 and '-', never two '-' in a row, and at most SafeFilenameMax
\* characters; so the names of the content document and of the image hold
\* no path separator and no '..', their only dot being that of the
\* extension, and the two artifacts are written to the output directory and
\* to its images directory.
C28_SafeNames ==
    Named =>
      /\ \A k \in DOMAIN out.safeFilename : out.safeFilename[k] \in SafeChars
      /\ \A k \in 1..(Len(out.safeFilename) - 1) :
            ~(out.safeFilename[k] = "-" /\ out.safeFilename[k + 1] = "-")
      /\ Len(out.safeFilename) <= SafeFilenameMax
      /\ \A k \in DOMAIN out.md.name : out.md.name[k] \notin {"/", "\\"}
      /\ \A k \in DOMAIN out.screenshot.name : out.screenshot.name[k] \notin {"/", "\\"}
      /\ Cardinality({ k \in DOMAIN out.md.name : out.md.name[k] = "." }) = 1
      /\ Cardinality({ k \in DOMAIN out.screenshot.name : out.screenshot.name[k] = "." }) = 1
      /\ out.md.dir = "out"
      /\ out.screenshot.dir = "images"

\* the text "../" as the first link: the name is 01--.md
C28_Witness ==
    /\ Named
    /\ arg.text = <<".", ".", "/">>
    /\ arg.linkNum = 1
    /\ out.safeFilename = <<"-">>
    /\ out.md.name = <<"0", "1", "-", "-", ".", "m", "d">>


\* C29: at every point of the loop, and so at every iteration boundary,
\* after k links were processed the result list holds k results and the
\* in-memory index k blocks after its header, and block j is an error block
\* exactly when result j has success = false.
C29_LoopInvariant ==
    (Crawler /\ (InLink \/ pc = "WritingIndex")) =>
      /\ Len(results) = i
      /\ Len(IndexBlocks(indexMd)) = i
      /\ \A j \in 1..i :
            /\ IndexBlocks(indexMd)[j].kind \in {"entry", "error"}
            /\ IndexBlocks(indexMd)[j].kind = "error" <=> results[j].success = FALSE
            /\ IndexBlocks(indexMd)[j].num = j

\* the boundary before the third link, after a failure and a success
C29_Witness ==
    /\ Crawler /\ pc = "Navigate" /\ i = 2
    /\ Len(results) = 2 /\ Len(indexMd) = 3
    /\ results[1].success = FALSE /\ indexMd[2].kind = "error"
    /\ results[2].success = TRUE /\ indexMd[3].kind = "entry"

\* the artifacts of link k
ImageOf(k) == [dir |-> "images", name |-> ScreenshotFilename(k, links[k].text)]
DocumentOf(k) == [dir |-> "out", name |-> MdFilename(k, links[k].text)]

\* C30: within a link the steps follow one another in the order navigate,
\* scroll, screenshot, extract, then convert, write and record; a success
\* result is recorded only with the image and the content document of the
\* link written; a step that fails records the failure and leaves the link:
\* nothing more is written for it and the loop is at the next link or past
\* its end.
C30_StepOrder ==
    [][(Crawler /\ InLink) =>
         /\ (i' = i /\ pc' # pc) =>
               <<pc, pc'>> \in { <<"Navigate", "Scroll">>, <<"Scroll", "Screenshot">>,
                                 <<"Screenshot", "Extract">>, <<"Extract", "WriteMd">> }
         /\ pc' = "Extract" => ImageOf(i + 1) \in files'
         /\ (Len(results') > Len(results) /\ results'[Len(results')].success) =>
               /\ pc = "WriteMd"
               /\ ImageOf(i + 1) \in files
               /\ DocumentOf(i + 1) \in files'
               /\ i' = i + 1
         /\ (Len(results') > Len(results) /\ ~results'[Len(results')].success) =>
               /\ files' = files
               /\ DocumentOf(i + 1) \notin files'
               /\ pc # "Navigate" => Len(gotoLog') = Len(gotoLog)
               /\ i' = i + 1
               /\ pc' = IF i + 1 < Len(links) THEN "Navigate" ELSE "WritingIndex"]_vars

\* the second link failed at the extraction: its image is there, its
\* document is not, and the loop is at the third link
C30_Witness ==
    /\ Crawler /\ pc = "Navigate" /\ i = 2
    /\ links[2].text # links[3].text
    /\ results[2].success = FALSE /\ results[2].error \in EvaluationErrors
    /\ ImageOf(2) \in files
    /\ DocumentOf(2) \notin files

====
